---------------------------- MODULE Spec2Model ----------------------------
(***************************************************************************)
(* Model of the login service of login/gocode/main.go: the session cookie  *)
(* codec (gorilla/securecookie as configured by securecookie.New), the     *)
(* credential check (MongoDB collection or hardcoded pair), the four HTTP  *)
(* handlers and the net/http ResponseWriter they write to.                 *)
(*                                                                         *)
(* Time is counted in units of 30 days, so that the codec's default        *)
(* maximum age of 30 days (86400 * 30 seconds) is 1 unit.                  *)
(***************************************************************************)
EXTENDS Integers, Sequences, FiniteSets, TLC

VARIABLES
    phase,            \* position of main: "starting", "initialized", "routed", then "serving"
    usersCollection,  \* the package-level store handle: "nil" or "users"
    store,            \* documents of the users collection, in insertion order
    dbUp,             \* whether the MongoDB server answers at the moment
    cookieHandler,    \* the package-level codec: its hash key and block key
    now,              \* wall clock, in units of 30 days
    jar,              \* the client's cookie jar for "session": <<>> or <<value>>
    req,              \* the request just handled, if the last step handled one
    resp,             \* the response to it
    userName,         \* what getUserName returned while handling it
    login,            \* the client's last successful POST /login: form name, cookie value issued, process run
    loggedOut,        \* the client logged out and has not logged in successfully since
    routes,           \* the routes registered on the package-level router, in order
    run,              \* which run of the process this is: 1, 2, ...
    args,             \* the command-line arguments after the program name
    environ,          \* the environment variables MONGODB_USERNAME and MONGODB_PASSWORD
    mongoURI,         \* the URI connectDB connected with, once it has run
    startup,          \* what start-up has done: writes of the handle and of the keys, the seeding
    inflight,         \* requests being handled step by step, one slot per concurrent request
    again,            \* the request just handled repeats the one handled before it, which was served
    attempts,         \* failed logins of the client: in this run, and since its last successful login
    granted,          \* the names for which a login has succeeded in this run
    kept              \* session cookie values the client has put aside: <<>> or <<value>>

(* The state of the process, of its surroundings, of the client, and the last exchange. *)
process == <<phase, usersCollection, cookieHandler, routes, run, mongoURI, startup>>

world == <<store, dbUp, now, args, environ>>

browser == <<jar, login, loggedOut>>

exchange == <<req, resp, userName, again>>

history == <<attempts, granted, kept>>

vars == <<phase, usersCollection, store, dbUp, cookieHandler, now, jar,
          req, resp, userName, login, loggedOut,
          routes, run, args, environ, mongoURI, startup, inflight, again,
          attempts, granted, kept>>

---------------------------------------------------------------------------
(* Bounds of the model *)

MaxClock == 2

LongNameBytes == 4096

MaxRuns == 2

MaxInflight == 2

MaxDocuments == 5

MaxFailures == 2

(* Package-level configuration, main.go lines 22-29 *)

username == "Ahmad"

password == "Pass123"

(* A user name of LongNameBytes bytes, written short. *)
LongName == "LONG"

Names == {"", username, "alice", LongName}

Passwords == {"", password, "secret"}

NameBytes(n) == IF n = LongName THEN LongNameBytes ELSE Len(n)

Document(u, p) == [username |-> u, password |-> p]

(* The collections the database may hold when the process starts. *)
InitialStores ==
    { <<>>,
      << Document("alice", "secret"), Document("", ""), Document(LongName, "secret"),
         Document(username, "secret") >>,
      << Document(username, password) >> }

---------------------------------------------------------------------------
(* gorilla/securecookie, as constructed by securecookie.New(hashKey, blockKey) *)

maxAge == 1

maxLength == 4096

ProcessKey == "key-of-this-process"

ForeignKey == "key-of-another-process"

(* securecookie.GenerateRandomKey: the keys of each run of the process are fresh. *)
(* A key generator that returns the same key in every run. *)
GenerateRandomKey_Fixed(r) == ProcessKey

GenerateRandomKey(r) == IF r = 1 THEN ProcessKey ELSE "key-of-run-" \o ToString(r)

(* Length of the base64 encoding of x bytes. *)
Base64Len(x) == 4 * ((x + 2) \div 3)

(* Length of the encoded cookie value for a session holding name n:        *)
(* gob of map{"name": n}, AES-CTR with a 16 byte IV, base64, then           *)
(* "timestamp|value|mac" with a 32 byte MAC, base64 again.                  *)
EncodedLen(n) == Base64Len(10 + 1 + Base64Len(16 + 14 + NameBytes(n)) + 1 + 32)

(* What the MAC is computed over: cookie name, timestamp and ciphertext, under the hash key. *)
CreateMac(hashKey, name, ts, data) == [key |-> hashKey, name |-> name, ts |-> ts, data |-> data]

NoMac == CreateMac(ForeignKey, "", 0, [blockKey |-> ForeignKey, value |-> [name |-> ""]])

(* A cookie value that is not the output of the codec: the literal text s. *)
Raw(s) ==
    [form |-> s, ts |-> 0,
     data |-> [blockKey |-> ForeignKey, value |-> [name |-> ""]],
     mac |-> NoMac]

(* securecookie.Encode(name, value): serialize, encrypt, MAC with the current time, length check. *)
EncodeAt(s, name, value, t) ==
    LET data == [blockKey |-> s.blockKey, value |-> value]
    IN  IF EncodedLen(value.name) > maxLength
        THEN [err |-> TRUE, encoded |-> Raw("")]
        ELSE [err |-> FALSE,
              encoded |-> [form |-> "encoded", ts |-> t, data |-> data,
                           mac |-> CreateMac(s.hashKey, name, t, data)]]

Encode(s, name, value) == EncodeAt(s, name, value, now)

(* Decode without the MAC verification. *)
Decode_NoMac(s, name, value) ==
    IF value.form # "encoded"
    THEN [err |-> TRUE, dst |-> [name |-> ""]]
    ELSE IF value.ts < now - maxAge
    THEN [err |-> TRUE, dst |-> [name |-> ""]]
    ELSE [err |-> FALSE, dst |-> value.data.value]

(* Decode without the timestamp verification (a codec built with MaxAge(0)). *)
Decode_NoExpiry(s, name, value) ==
    IF value.form # "encoded"
    THEN [err |-> TRUE, dst |-> [name |-> ""]]
    ELSE IF value.mac # CreateMac(s.hashKey, name, value.ts, value.data)
    THEN [err |-> TRUE, dst |-> [name |-> ""]]
    ELSE IF value.data.blockKey # s.blockKey
    THEN [err |-> TRUE, dst |-> [name |-> ""]]
    ELSE [err |-> FALSE, dst |-> value.data.value]

(* Decode rejecting a value already when its age equals the maximum age. *)
Decode_ExpiresEarly(s, name, value) ==
    IF value.form # "encoded"
    THEN [err |-> TRUE, dst |-> [name |-> ""]]
    ELSE IF value.mac # CreateMac(s.hashKey, name, value.ts, value.data)
    THEN [err |-> TRUE, dst |-> [name |-> ""]]
    ELSE IF value.ts <= now - maxAge
    THEN [err |-> TRUE, dst |-> [name |-> ""]]
    ELSE IF value.data.blockKey # s.blockKey
    THEN [err |-> TRUE, dst |-> [name |-> ""]]
    ELSE [err |-> FALSE, dst |-> value.data.value]

(* securecookie.Decode(name, value, dst): length check, base64, MAC, timestamp, decrypt, deserialize. *)
Decode(s, name, value) ==
    IF value.form # "encoded"
    THEN [err |-> TRUE, dst |-> [name |-> ""]]
    ELSE IF value.mac # CreateMac(s.hashKey, name, value.ts, value.data)
    THEN [err |-> TRUE, dst |-> [name |-> ""]]
    ELSE IF value.ts < now - maxAge
    THEN [err |-> TRUE, dst |-> [name |-> ""]]
    ELSE IF value.data.blockKey # s.blockKey
    THEN [err |-> TRUE, dst |-> [name |-> ""]]
    ELSE [err |-> FALSE, dst |-> value.data.value]

---------------------------------------------------------------------------
(* net/http: cookies, the request's Cookie lookup and the ResponseWriter *)

Cookie(name, value, path, age) == [Name |-> name, Value |-> value, Path |-> path, MaxAge |-> age, Expires |-> "none"]

(* request.Cookie(name): the first cookie of that name, or ErrNoCookie. *)
RECURSIVE RequestCookie(_, _)
RequestCookie(cookies, name) ==
    IF cookies = <<>> THEN [err |-> TRUE, Value |-> Raw("")]
    ELSE IF Head(cookies).Name = name THEN [err |-> FALSE, Value |-> Head(cookies).Value]
    ELSE RequestCookie(Tail(cookies), name)

NoHeader == [Location |-> <<>>, SetCookie |-> <<>>]

(* A fresh response: nothing written, status 200 unless a handler says otherwise. *)
NewResponse == [code |-> 200, wroteHeader |-> FALSE, header |-> NoHeader, sent |-> NoHeader, body |-> <<>>]

(* WriteHeader: the first call fixes the status and sends the headers set so far; later calls are ignored. *)
WriteHeader(w, code) ==
    IF w.wroteHeader THEN w
    ELSE [w EXCEPT !.code = code, !.wroteHeader = TRUE, !.sent = w.header]

(* Write (fmt.Fprint / fmt.Fprintf to the response): an implicit WriteHeader(200), then the body. *)
Write(w, page, arg) ==
    LET w1 == WriteHeader(w, 200)
    IN  [w1 EXCEPT !.body = Append(@, [page |-> page, arg |-> arg])]

SetCookie(w, cookie) == [w EXCEPT !.header.SetCookie = Append(@, cookie)]

(* http.Redirect: sets Location, writes the status, and for GET and HEAD a short body. *)
Redirect(w, method, url, code) ==
    LET w1 == [w EXCEPT !.header.Location = <<url>>]
        w2 == WriteHeader(w1, code)
    IN  IF method \in {"GET", "HEAD"} THEN Write(w2, "redirect", url) ELSE w2

---------------------------------------------------------------------------
(* main.go: session handling *)

(* getUserName refusing every cookie once the client has logged out, as if *)
(* the server kept a list of the sessions that were ended.                *)
getUserName_Revoking(request) ==
    LET cookie == RequestCookie(request.cookies, "session")
    IN  IF cookie.err \/ loggedOut THEN ""
        ELSE LET decoded == Decode(cookieHandler, "session", cookie.Value)
             IN  IF decoded.err THEN "" ELSE decoded.dst.name

(* getUserName naming the bearer of an undecodable cookie "guest". *)
getUserName_Guest(request) ==
    LET cookie == RequestCookie(request.cookies, "session")
    IN  IF cookie.err THEN ""
        ELSE LET decoded == Decode(cookieHandler, "session", cookie.Value)
             IN  IF decoded.err THEN "guest" ELSE decoded.dst.name

getUserName(request) ==
    LET cookie == RequestCookie(request.cookies, "session")
    IN  IF cookie.err THEN ""
        ELSE LET decoded == Decode(cookieHandler, "session", cookie.Value)
             IN  IF decoded.err THEN "" ELSE decoded.dst.name

(* setSession without the test of Encode's error: the empty result is set as the cookie. *)
setSession_ErrorCookie(name, response) ==
    LET e == Encode(cookieHandler, "session", [name |-> name])
    IN  IF ~e.err THEN SetCookie(response, Cookie("session", e.encoded, "/", 0))
        ELSE SetCookie(response, Cookie("session", Raw(""), "/", 0))

(* setSession embedding the configured user name instead of its argument. *)
setSession_FixedName(name, response) ==
    LET e == Encode(cookieHandler, "session", [name |-> username])
    IN  IF ~e.err THEN SetCookie(response, Cookie("session", e.encoded, "/", 0))
        ELSE response

(* setSession giving the cookie a lifetime. *)
setSession_Persistent(name, response) ==
    LET e == Encode(cookieHandler, "session", [name |-> name])
    IN  IF ~e.err THEN SetCookie(response, Cookie("session", e.encoded, "/", 3600))
        ELSE response

setSession(name, response) ==
    LET e == Encode(cookieHandler, "session", [name |-> name])
    IN  IF ~e.err THEN SetCookie(response, Cookie("session", e.encoded, "/", 0))
        ELSE response

(* clearSession without the immediate-expiry directive. *)
clearSession_NoMaxAge(response) == SetCookie(response, Cookie("session", Raw(""), "/", 0))

clearSession(response) == SetCookie(response, Cookie("session", Raw(""), "/", -1))

(* main.go: credential check *)

Matches(doc, filter) == doc.username = filter.username /\ doc.password = filter.password

(* FindOne matching the user name and the password in separate documents. *)
FindOne_AnyDocument(filter) ==
    IF ~dbUp THEN "connection error"
    ELSE IF /\ \E i \in 1..Len(store) : store[i].username = filter.username
            /\ \E j \in 1..Len(store) : store[j].password = filter.password
         THEN "nil"
    ELSE "ErrNoDocuments"

(* usersCollection.FindOne(ctx, filter).Decode(&result): nil when a document matches, *)
(* ErrNoDocuments when none does, a connection error when the server is unreachable.  *)
FindOne(filter) ==
    IF ~dbUp THEN "connection error"
    ELSE IF \E i \in 1..Len(store) : Matches(store[i], filter) THEN "nil"
    ELSE "ErrNoDocuments"

(* verifyCredentials choosing its mode by whether the server answers now. *)
verifyCredentials_ByAvailability(user, pass) ==
    IF ~dbUp
    THEN user = username /\ pass = password
    ELSE FindOne(Document(user, pass)) = "nil"

(* verifyCredentials refusing every pair once the client has failed too often. *)
verifyCredentials_Lockout(user, pass) ==
    /\ attempts.since < MaxFailures
    /\ IF usersCollection = "nil"
       THEN user = username /\ pass = password
       ELSE FindOne(Document(user, pass)) = "nil"

(* verifyCredentials treating a failed lookup like a missing handle. *)
verifyCredentials_FallbackOnError(user, pass) ==
    IF usersCollection = "nil" \/ FindOne(Document(user, pass)) = "connection error"
    THEN user = username /\ pass = password
    ELSE FindOne(Document(user, pass)) = "nil"

(* verifyCredentials not comparing the password in fallback mode. *)
verifyCredentials_UserOnly(user, pass) ==
    IF usersCollection = "nil"
    THEN user = username
    ELSE FindOne(Document(user, pass)) = "nil"

verifyCredentials(user, pass) ==
    IF usersCollection = "nil"
    THEN user = username /\ pass = password
    ELSE FindOne(Document(user, pass)) = "nil"

(* main.go: handlers, each from a fresh response to the response it leaves *)

(* loginHandler issuing the session before it verifies the credentials. *)
loginHandler_SessionFirst(response, request) ==
    LET name == request.form.name
        pass == request.form.password
        ok == verifyCredentials(name, pass)
    IN  IF ok
        THEN Redirect(setSession(name, response), request.method, "/internal", 302)
        ELSE Redirect(Write(setSession(name, response), "Invalid login", ""),
                      request.method, "/", 302)

(* loginHandler ending the session of a client whose login fails. *)
loginHandler_ClearsOnFailure(response, request) ==
    LET name == request.form.name
        pass == request.form.password
        ok == verifyCredentials(name, pass)
    IN  IF ok
        THEN Redirect(setSession(name, response), request.method, "/internal", 302)
        ELSE Redirect(Write(clearSession(response), "Invalid login", ""), request.method, "/", 302)

(* loginHandler issuing no new session to a request that already carries a valid one. *)
loginHandler_KeepsSession(response, request) ==
    LET name == request.form.name
        pass == request.form.password
        ok == verifyCredentials(name, pass)
    IN  IF ok
        THEN Redirect(IF getUserName(request) # "" THEN response ELSE setSession(name, response),
                      request.method, "/internal", 302)
        ELSE Redirect(Write(response, "Invalid login", ""), request.method, "/", 302)

(* loginHandler redirecting before it writes the failure notice. *)
loginHandler_RedirectFirst(response, request) ==
    LET name == request.form.name
        pass == request.form.password
        ok == verifyCredentials(name, pass)
    IN  IF ok
        THEN Redirect(setSession(name, response), request.method, "/internal", 302)
        ELSE Write(Redirect(response, request.method, "/", 302), "Invalid login", "")

loginHandler(response, request) ==
    LET name == request.form.name
        pass == request.form.password
        ok == verifyCredentials(name, pass)
    IN  IF ok
        THEN Redirect(setSession(name, response), request.method, "/internal", 302)
        ELSE Redirect(Write(response, "Invalid login", ""), request.method, "/", 302)

(* logoutHandler that only redirects. *)
logoutHandler_NoClear(response, request) == Redirect(response, request.method, "/", 302)

logoutHandler(response, request) ==
    Redirect(clearSession(response), request.method, "/", 302)

(* The form of the constant indexPage: its method, its action and its input fields. *)
indexPage ==
    [method |-> "POST", action |-> "/login",
     fields |-> <<[name |-> "name", type |-> "text"], [name |-> "password", type |-> "password"]>>]

(* indexPageHandler ending the session before it writes the form. *)
indexPageHandler_ClearsSession(response, request) ==
    Write(clearSession(response), "indexPage", "")

indexPageHandler(response, request) == Write(response, "indexPage", "")

(* internalPageHandler ending the session it has just served. *)
internalPageHandler_ClearsSession(response, request) ==
    LET name == getUserName(request)
    IN  IF name # "" THEN Write(clearSession(response), "internalPage", name)
        ELSE Redirect(response, request.method, "/", 302)

(* internalPageHandler without the guard on the user name. *)
internalPageHandler_NoGuard(response, request) ==
    Write(response, "internalPage", getUserName(request))

internalPageHandler(response, request) ==
    LET name == getUserName(request)
    IN  IF name # "" THEN Write(response, "internalPage", name)
        ELSE Redirect(response, request.method, "/", 302)

(* main.go: start-up *)

localhost == "127.0.0.1"

mongodb_port == 27017

(* getMongoDBIP taking the first command-line argument even when it is empty. *)
getMongoDBIP_NoEmptyCheck(a) ==
    IF Len(a) > 0 THEN a[1] ELSE localhost

(* getMongoDBIP: the first command-line argument, or localhost when it is absent or empty. *)
getMongoDBIP(a) ==
    IF Len(a) > 0
    THEN IF a[1] = "" THEN localhost ELSE a[1]
    ELSE localhost

(* The URI connectDB hands to mongo.Connect: "mongodb://" + ip + ":" + port + "/". *)
ConnectURI(ip) == [userinfo |-> <<>>, host |-> ip, port |-> mongodb_port]

NoURI == [userinfo |-> <<>>, host |-> "", port |-> 0]

(* connectDB returning the collection without looking at the errors of Connect and Ping. *)
connectDB_NoPing == "users"

connectDB == IF dbUp THEN "users" ELSE "nil"

(* createUsers inserting without looking at the handle or at the insert's error. *)
createUsers_Unguarded(collection, docs, insertOk) == Append(docs, Document(username, password))

(* createUsers inserting the default user only when the store does not hold it yet. *)
createUsers_Upsert(collection, docs, insertOk) ==
    IF collection = "nil" THEN docs
    ELSE IF insertOk /\ \A i \in 1..Len(docs) : docs[i] # Document(username, password)
         THEN Append(docs, Document(username, password))
    ELSE docs

(* createUsers: InsertOne of the default user; a failed insert is only logged. *)
createUsers(collection, docs, insertOk) ==
    IF collection = "nil" THEN docs
    ELSE IF insertOk THEN Append(docs, Document(username, password))
    ELSE docs

(* main.go: the router (gorilla/mux) *)

(* A route: its path, its handler and the methods it is restricted to ({} for any). *)
Route(path, handler, methods) == [path |-> path, handler |-> handler, methods |-> methods]

(* setupRouter registering /login and /logout for every method. *)
setupRouter_AnyMethod(r) ==
    r \o << Route("/", "index", {}),
            Route("/internal", "internal", {}),
            Route("/login", "login", {}),
            Route("/logout", "logout", {}) >>

(* setupRouter restricting the methods of /login and /logout only on a router without routes. *)
setupRouter_RestrictsOnce(r) ==
    r \o << Route("/", "index", {}),
            Route("/internal", "internal", {}),
            Route("/login", "login", IF r = <<>> THEN {"POST"} ELSE {}),
            Route("/logout", "logout", IF r = <<>> THEN {"POST"} ELSE {}) >>

(* setupRouter: registers the four routes on the router r. *)
setupRouter(r) ==
    r \o << Route("/", "index", {}),
            Route("/internal", "internal", {}),
            Route("/login", "login", {"POST"}),
            Route("/logout", "logout", {"POST"}) >>

(* Router.Match: the first route whose path and method match; when only the method *)
(* failed to match on some route the request is not allowed, else it is not found. *)
RECURSIVE MatchFrom(_, _, _, _)
MatchFrom(r, method, path, mismatch) ==
    IF r = <<>> THEN (IF mismatch THEN "methodNotAllowed" ELSE "notFound")
    ELSE IF Head(r).path # path THEN MatchFrom(Tail(r), method, path, mismatch)
    ELSE IF Head(r).methods = {} \/ method \in Head(r).methods THEN Head(r).handler
    ELSE MatchFrom(Tail(r), method, path, TRUE)

(* Match taking the route "/" for a subtree, as the patterns of http.ServeMux are. *)
Match_Subtree(r, method, path) ==
    LET outcome == MatchFrom(r, method, path, FALSE)
    IN  IF outcome = "notFound" /\ r # <<>> THEN "index" ELSE outcome

Match(r, method, path) == MatchFrom(r, method, path, FALSE)

(* cleanPath: the canonical form of a request path (no empty, "." or ".." *)
(* segment, a trailing slash kept), for the paths that are not canonical. *)
cleanPath(p) ==
    CASE p = "//internal" -> "/internal"
      [] p = "/./" -> "/"
      [] p = "/login/../admin" -> "/admin"
      [] OTHER -> p

(* Router.ServeHTTP behind http.Handle("/", router): a request whose path is not *)
(* canonical is redirected to the canonical one, any other is matched.           *)
ServeHTTP(r, method, path) ==
    IF cleanPath(path) # path THEN "movedPermanently" ELSE Match(r, method, path)

(* The router's own answers: 405 without a body, 404 with the text of http.NotFound. *)
RouterResponse(w, outcome) ==
    IF outcome = "methodNotAllowed" THEN WriteHeader(w, 405)
    ELSE Write(WriteHeader(w, 404), "404 page not found", "")

---------------------------------------------------------------------------
(* The client and the requests that reach the server *)

Methods == {"GET", "POST"}

RequestCookieOf(name, value) == [Name |-> name, Value |-> value]

OtherCookie == RequestCookieOf("theme", Raw("dark"))

(* A copy of value v with the embedded name replaced, the MAC left as it was. *)
Tampered(v) ==
    [v EXCEPT !.data.value.name = IF v.data.value.name = "alice" THEN username ELSE "alice"]

(* A copy of value v with its timestamp set to the current time, the MAC left as it was. *)
Refreshed(v) == [v EXCEPT !.ts = now]

ForeignCodec == [hashKey |-> ForeignKey, blockKey |-> ForeignKey]

(* Values of the "session" cookie a request can carry without coming from the jar. *)
OtherValues ==
    {Raw(""), Raw("not-a-valid-encoded-value")}
    \cup {EncodeAt(ForeignCodec, "session", [name |-> "alice"], now).encoded}
    \cup {Tampered(jar[i]) : i \in {j \in 1..Len(jar) : jar[j].form = "encoded"}}
    \cup {Refreshed(jar[i]) : i \in {j \in 1..Len(jar) : jar[j].form = "encoded" /\ jar[j].ts # now}}

(* The cookies a request carries: the client's jar as it is, or anything else. *)
CookieChoices(client) ==
    IF client
    THEN {[i \in 1..Len(jar) |-> RequestCookieOf("session", jar[i])]}
    ELSE {<<>>, <<OtherCookie>>}
         \cup {<<RequestCookieOf("session", v)>> : v \in OtherValues}
         \cup {<<OtherCookie, RequestCookieOf("session", Raw("not-a-valid-encoded-value"))>>}

Paths == {"/", "/internal", "/login", "/logout", "/admin"}

(* The methods of the requests sent to /login and /logout. *)
AllMethods == {"GET", "POST", "PUT"}

PathOf(handler) ==
    CASE handler = "index" -> "/"
      [] handler = "internal" -> "/internal"
      [] handler = "login" -> "/login"
      [] handler = "logout" -> "/logout"
      [] OTHER -> ""

RequestTo(path, handler, method, cookies, name, pass, client) ==
    [path |-> path, handler |-> handler, method |-> method, cookies |-> cookies,
     form |-> [name |-> name, password |-> pass], client |-> client]

Request(handler, method, cookies, name, pass, client) ==
    RequestTo(PathOf(handler), handler, method, cookies, name, pass, client)

NoRequest == Request("none", "GET", <<>>, "", "", FALSE)

(* The client's jar after the Set-Cookie headers it received: a cookie with a negative *)
(* MaxAge is dropped, or kept with its empty value by a client that replays what it got. *)
RECURSIVE ApplySetCookies(_, _, _)
ApplySetCookies(j, cookies, dropsExpired) ==
    IF cookies = <<>> THEN j
    ELSE LET c == Head(cookies)
             j1 == IF c.Name # "session" THEN j
                   ELSE IF c.MaxAge < 0 /\ dropsExpired THEN <<>>
                   ELSE <<c.Value>>
         IN  ApplySetCookies(j1, Tail(cookies), dropsExpired)

(* The values of the "session" cookies among the cookies of a Set-Cookie or Cookie header. *)
SessionValues(cookies) ==
    LET s == SelectSeq(cookies, LAMBDA c : c.Name = "session")
    IN  [i \in 1..Len(s) |-> s[i].Value]

---------------------------------------------------------------------------
(* The state machine *)

NoCredentials == [MONGODB_USERNAME |-> "", MONGODB_PASSWORD |-> ""]

Environments == {NoCredentials, [MONGODB_USERNAME |-> "admin", MONGODB_PASSWORD |-> "secret"]}

ArgLists == {<<>>, <<"">>, <<"172.19.0.5">>, <<"172.19.0.5", "10.0.0.1">>, <<"", "10.0.0.1">>}

(* What start-up has done when the process image is loaded: the package-level *)
(* initialisers have written the keys once, nothing else has happened.         *)
Loaded == [handleWrites |-> 0, keyWrites |-> 1, seed |-> "not called", seedCalls |-> 0]

IdleSlot == [pc |-> "idle", req |-> NoRequest, w |-> NewResponse,
             name |-> "", pass |-> "", ok |-> FALSE]

(* The state when main is entered, for the given surroundings. *)
Boot(stores, argLists, environments) ==
    /\ phase = "starting"
    /\ usersCollection = "nil"
    /\ store \in stores
    /\ dbUp \in BOOLEAN
    /\ cookieHandler = [hashKey |-> GenerateRandomKey(1), blockKey |-> GenerateRandomKey(1)]
    /\ now = 0
    /\ jar = <<>>
    /\ req = NoRequest
    /\ resp = NewResponse
    /\ userName = ""
    /\ login = [name |-> "", token |-> <<>>, run |-> 0]
    /\ loggedOut = FALSE
    /\ routes = <<>>
    /\ run = 1
    /\ args \in argLists
    /\ environ \in environments
    /\ mongoURI = NoURI
    /\ startup = Loaded
    /\ inflight = [i \in 1..MaxInflight |-> IdleSlot]
    /\ again = FALSE
    /\ attempts = [run |-> 0, since |-> 0]
    /\ granted = {}
    /\ kept = <<>>

Init == Boot(InitialStores, {<<>>}, {NoCredentials})

(* No request is being answered: the last exchange is over. *)
Quiet ==
    /\ req' = NoRequest
    /\ resp' = NewResponse
    /\ userName' = ""
    /\ again' = FALSE

(* A server that listens as soon as initializeApp has returned. *)
Accepting_BeforeSetup == phase # "starting"

(* The server accepts requests: main has returned from runApp and called startServer. *)
Accepting == phase = "serving"

(* runApp, first part: initializeApp (connectDB, then createUsers when connected). *)
InitializeApp ==
    /\ phase = "starting"
    /\ \E insertOk \in BOOLEAN :
         /\ usersCollection' = connectDB
         /\ store' = createUsers(connectDB, store, insertOk)
         /\ startup' = [startup EXCEPT
                          !.handleWrites = @ + 1,
                          !.seedCalls = IF connectDB = "nil" THEN @ ELSE @ + 1,
                          !.seed = IF connectDB = "nil" THEN "not called"
                                   ELSE IF insertOk THEN "inserted" ELSE "failed"]
    /\ mongoURI' = ConnectURI(getMongoDBIP(args))
    /\ phase' = "initialized"
    /\ UNCHANGED <<dbUp, now, args, environ, cookieHandler, routes, run, inflight>>
    /\ UNCHANGED <<browser, exchange>>
    /\ UNCHANGED history

(* runApp, second part: setupRouter. *)
SetupRouter ==
    /\ phase = "initialized"
    /\ routes' = setupRouter(routes)
    /\ phase' = "routed"
    /\ UNCHANGED <<usersCollection, cookieHandler, run, mongoURI, startup, inflight>>
    /\ UNCHANGED <<world, browser, exchange>>
    /\ UNCHANGED history

(* main: startServer, after runApp has returned. *)
StartServer ==
    /\ phase = "routed"
    /\ phase' = "serving"
    /\ UNCHANGED <<usersCollection, cookieHandler, routes, run, mongoURI, startup, inflight>>
    /\ UNCHANGED <<world, browser, exchange>>
    /\ UNCHANGED history

Index ==
    /\ Accepting
    /\ \E method \in Methods :
         /\ Match(routes, method, "/") = "index"
         /\ \E cookies \in CookieChoices(TRUE) :
              LET r == Request("index", method, cookies, "", "", TRUE)
                  w == indexPageHandler(NewResponse, r)
              IN  /\ req' = r
                  /\ resp' = w
                  /\ jar' = ApplySetCookies(jar, w.sent.SetCookie, TRUE)
    /\ userName' = ""
    /\ again' = FALSE
    /\ UNCHANGED <<process, world, login, loggedOut, inflight>>
    /\ UNCHANGED history

Login ==
    /\ Accepting
    /\ \E method \in AllMethods, name \in Names, pass \in Passwords :
         /\ Match(routes, method, "/login") = "login"
         /\ \E cookies \in CookieChoices(TRUE) :
              LET r == Request("login", method, cookies, name, pass, TRUE)
                  w == loginHandler(NewResponse, r)
                  ok == verifyCredentials(name, pass)
              IN  /\ req' = r
                  /\ resp' = w
                  /\ jar' = ApplySetCookies(jar, w.sent.SetCookie, TRUE)
                  /\ login' = IF ok
                              THEN [name |-> name, token |-> SessionValues(w.sent.SetCookie),
                                    run |-> run]
                              ELSE login
                  /\ loggedOut' = IF ok THEN FALSE ELSE loggedOut
    /\ userName' = ""
    /\ again' = FALSE
    /\ UNCHANGED <<process, world, inflight>>
    /\ UNCHANGED history

Internal ==
    /\ Accepting
    /\ \E fromClient \in BOOLEAN :
         \E method \in (IF fromClient THEN Methods ELSE {"GET"}) :
           /\ Match(routes, method, "/internal") = "internal"
           /\ \E cookies \in CookieChoices(fromClient) :
                LET r == Request("internal", method, cookies, "", "", fromClient)
                    w == internalPageHandler(NewResponse, r)
                IN  /\ req' = r
                    /\ resp' = w
                    /\ userName' = getUserName(r)
                    /\ jar' = IF fromClient THEN ApplySetCookies(jar, w.sent.SetCookie, TRUE)
                              ELSE jar
                    /\ again' = (/\ req.handler = "internal"
                                  /\ req.cookies = cookies
                                  /\ resp.code = 200)
    /\ UNCHANGED <<process, world, login, loggedOut, inflight>>
    /\ UNCHANGED history

Logout ==
    /\ Accepting
    /\ \E method \in AllMethods, fromClient \in BOOLEAN :
         /\ Match(routes, method, "/logout") = "logout"
         /\ \E dropsExpired \in (IF fromClient THEN BOOLEAN ELSE {TRUE}),
               cookies \in CookieChoices(fromClient) :
              LET r == Request("logout", method, cookies, "", "", fromClient)
                  w == logoutHandler(NewResponse, r)
              IN  /\ req' = r
                  /\ resp' = w
                  /\ jar' = IF fromClient
                            THEN ApplySetCookies(jar, w.sent.SetCookie, dropsExpired)
                            ELSE jar
                  /\ loggedOut' = IF fromClient THEN TRUE ELSE loggedOut
    /\ userName' = ""
    /\ again' = FALSE
    /\ UNCHANGED <<process, world, login, inflight>>
    /\ UNCHANGED history

(* A request the router dispatches to no handler: it answers 405 or 404 itself. *)
Refuse ==
    /\ Accepting
    /\ \E method \in AllMethods, path \in Paths :
         /\ Match(routes, method, path) \in {"methodNotAllowed", "notFound"}
         /\ \E cookies \in CookieChoices(TRUE) :
              LET outcome == Match(routes, method, path)
                  r == RequestTo(path, outcome, method, cookies, username, password, TRUE)
                  w == RouterResponse(NewResponse, outcome)
              IN  /\ req' = r
                  /\ resp' = w
                  /\ jar' = ApplySetCookies(jar, w.sent.SetCookie, TRUE)
    /\ userName' = ""
    /\ again' = FALSE
    /\ UNCHANGED <<process, world, login, loggedOut, inflight>>
    /\ UNCHANGED history

Tick ==
    /\ now < MaxClock
    /\ now' = now + 1
    /\ Quiet
    /\ UNCHANGED <<process, store, dbUp, args, environ, browser, inflight>>
    /\ UNCHANGED history

(* The database server goes down or comes back. *)
DbToggle ==
    /\ dbUp' = ~dbUp
    /\ Quiet
    /\ UNCHANGED <<process, store, now, args, environ, browser, inflight>>
    /\ UNCHANGED history

Next ==
    \/ InitializeApp
    \/ SetupRouter
    \/ StartServer
    \/ Index
    \/ Login
    \/ Internal
    \/ Logout
    \/ Refuse
    \/ Tick
    \/ DbToggle

Spec == Init /\ [][Next]_vars

---------------------------------------------------------------------------
(* Start-up on its own: the surroundings of the process vary, createUsers  *)
(* is also called directly, and the process can be stopped and run again.  *)

(* createUsers called on the handle as it is. An insert can succeed only *)
(* while the server answers.                                             *)
CreateUsers ==
    /\ Len(store) < MaxDocuments
    /\ \E insertOk \in (IF dbUp THEN BOOLEAN ELSE {FALSE}) :
         /\ store' = createUsers(usersCollection, store, insertOk)
         /\ startup' = [startup EXCEPT
                          !.seed = IF usersCollection = "nil" THEN "skipped"
                                   ELSE IF insertOk THEN "inserted" ELSE "failed",
                          !.seedCalls = IF @ < MaxDocuments THEN @ + 1 ELSE @]
    /\ UNCHANGED <<phase, usersCollection, cookieHandler, routes, run, mongoURI>>
    /\ UNCHANGED <<dbUp, now, args, environ, browser, exchange, inflight>>
    /\ UNCHANGED history

(* The process ends and the program is run again: every package-level variable *)
(* is initialised anew, the database, the clock and the client stay as they are. *)
Restart ==
    /\ run < MaxRuns
    /\ run' = run + 1
    /\ phase' = "starting"
    /\ usersCollection' = "nil"
    /\ cookieHandler' = [hashKey |-> GenerateRandomKey(run + 1),
                         blockKey |-> GenerateRandomKey(run + 1)]
    /\ routes' = <<>>
    /\ mongoURI' = NoURI
    /\ startup' = Loaded
    /\ Quiet
    /\ attempts' = [attempts EXCEPT !.run = 0]
    /\ granted' = {}
    /\ UNCHANGED <<world, browser, inflight, kept>>

StartupInit == Boot(InitialStores, ArgLists, Environments)

StartupNext ==
    \/ InitializeApp
    \/ SetupRouter
    \/ StartServer
    \/ CreateUsers
    \/ DbToggle
    \/ Restart

StartupSpec == StartupInit /\ [][StartupNext]_vars

(* A client that keeps its cookie while the process is stopped and run again. *)
RestartInit == Boot({<<Document(username, password)>>}, {<<>>}, {NoCredentials})

RestartNext ==
    \/ InitializeApp
    \/ SetupRouter
    \/ StartServer
    \/ Login
    \/ Internal
    \/ Logout
    \/ Restart

RestartSpec == RestartInit /\ [][RestartNext]_vars

---------------------------------------------------------------------------
(* The router on its own: setupRouter is called again on the package-level *)
(* router, and requests of any method and path are served.                 *)

MaxSetups == 3

(* The paths of the requests sent to the router. *)
RouterPaths == Paths \cup {"/internal/", "/Login", "//internal", "/./", "/login/../admin"}

RouterForms == {[name |-> username, password |-> password], [name |-> "", password |-> ""]}

(* The response of the handler a request was dispatched to. *)
HandlerResponse(handler, w, request) ==
    CASE handler = "index" -> indexPageHandler(w, request)
      [] handler = "internal" -> internalPageHandler(w, request)
      [] handler = "login" -> loginHandler(w, request)
      [] handler = "logout" -> logoutHandler(w, request)

(* setupRouter called once more: the routes are registered again on the same router. *)
SetupRouterAgain ==
    /\ phase \in {"routed", "serving"}
    /\ Len(routes) < 4 * MaxSetups
    /\ routes' = setupRouter(routes)
    /\ Quiet
    /\ UNCHANGED <<phase, usersCollection, cookieHandler, run, mongoURI, startup, inflight>>
    /\ UNCHANGED <<world, browser>>
    /\ UNCHANGED history

(* A request of some other client, without cookies, served as the server serves it. *)
Dispatch ==
    /\ Accepting
    /\ \E method \in AllMethods, path \in RouterPaths, form \in RouterForms :
         LET outcome == ServeHTTP(routes, method, path)
             r == RequestTo(path, outcome, method, <<>>, form.name, form.password, FALSE)
             w == IF outcome = "movedPermanently"
                  THEN Redirect(NewResponse, method, cleanPath(path), 301)
                  ELSE IF outcome \in {"methodNotAllowed", "notFound"}
                  THEN RouterResponse(NewResponse, outcome)
                  ELSE HandlerResponse(outcome, NewResponse, r)
         IN  /\ req' = r
             /\ resp' = w
             /\ userName' = IF outcome = "internal" THEN getUserName(r) ELSE ""
    /\ again' = FALSE
    /\ UNCHANGED <<process, world, browser, inflight>>
    /\ UNCHANGED history

RouterInit == Boot({<<>>, <<Document(username, password)>>}, {<<>>}, {NoCredentials})

RouterNext ==
    \/ InitializeApp
    \/ SetupRouter
    \/ SetupRouterAgain
    \/ StartServer
    \/ Dispatch

RouterSpec == RouterInit /\ [][RouterNext]_vars

---------------------------------------------------------------------------
(* A client that logs in again and again, with the count of its failures. *)

(* The form values of the repeated logins. *)
AttemptForms ==
    { [name |-> username, password |-> password],
      [name |-> username, password |-> "secret"],
      [name |-> "alice", password |-> "secret"],
      [name |-> "alice", password |-> ""] }

(* POST /login by the client, which keeps count of the failures. *)
Attempt ==
    /\ Accepting
    /\ Match(routes, "POST", "/login") = "login"
    /\ \E form \in AttemptForms, cookies \in CookieChoices(TRUE) :
         LET r == Request("login", "POST", cookies, form.name, form.password, TRUE)
             w == loginHandler(NewResponse, r)
             ok == verifyCredentials(form.name, form.password)
         IN  /\ req' = r
             /\ resp' = w
             /\ jar' = ApplySetCookies(jar, w.sent.SetCookie, TRUE)
             /\ login' = IF ok
                         THEN [name |-> form.name, token |-> SessionValues(w.sent.SetCookie),
                               run |-> run]
                         ELSE login
             /\ loggedOut' = IF ok THEN FALSE ELSE loggedOut
             /\ attempts' = IF ok THEN [attempts EXCEPT !.since = 0]
                            ELSE [run |-> IF attempts.run < MaxFailures
                                          THEN attempts.run + 1 ELSE attempts.run,
                                  since |-> IF attempts.since < MaxFailures
                                            THEN attempts.since + 1 ELSE attempts.since]
    /\ userName' = ""
    /\ again' = FALSE
    /\ UNCHANGED <<process, world, inflight, granted, kept>>

AttemptsInit == Boot({<<Document("alice", "secret")>>}, {<<>>}, {NoCredentials})

AttemptsNext ==
    \/ InitializeApp
    \/ SetupRouter
    \/ StartServer
    \/ Attempt
    \/ Internal
    \/ Tick
    \/ DbToggle

AttemptsSpec == AttemptsInit /\ [][AttemptsNext]_vars

---------------------------------------------------------------------------
(* A client that puts aside the session cookie it is about to lose, and    *)
(* presents it again later.                                                *)

SessionForms ==
    { [name |-> username, password |-> password],
      [name |-> "alice", password |-> "secret"],
      [name |-> "alice", password |-> ""],
      [name |-> "", password |-> ""] }

(* The cookie the client puts aside when its jar is about to change: the jar's *)
(* cookie if it is a value issued by setSession, else what was put aside before. *)
PutAside(newJar) ==
    IF newJar # jar /\ jar # <<>> /\ jar[1].form = "encoded" THEN jar ELSE kept

(* POST /login by the client. *)
SignIn ==
    /\ Accepting
    /\ Match(routes, "POST", "/login") = "login"
    /\ \E form \in SessionForms, cookies \in CookieChoices(TRUE) :
         LET r == Request("login", "POST", cookies, form.name, form.password, TRUE)
             w == loginHandler(NewResponse, r)
             ok == verifyCredentials(form.name, form.password)
             j == ApplySetCookies(jar, w.sent.SetCookie, TRUE)
         IN  /\ req' = r
             /\ resp' = w
             /\ jar' = j
             /\ kept' = PutAside(j)
             /\ login' = IF ok
                         THEN [name |-> form.name, token |-> SessionValues(w.sent.SetCookie),
                               run |-> run]
                         ELSE login
             /\ loggedOut' = IF ok THEN FALSE ELSE loggedOut
             /\ granted' = IF ok THEN granted \cup {form.name} ELSE granted
    /\ userName' = ""
    /\ again' = FALSE
    /\ UNCHANGED <<process, world, inflight, attempts>>

(* POST /logout by the client. *)
SignOut ==
    /\ Accepting
    /\ Match(routes, "POST", "/logout") = "logout"
    /\ \E cookies \in CookieChoices(TRUE) :
         LET r == Request("logout", "POST", cookies, "", "", TRUE)
             w == logoutHandler(NewResponse, r)
             j == ApplySetCookies(jar, w.sent.SetCookie, TRUE)
         IN  /\ req' = r
             /\ resp' = w
             /\ jar' = j
             /\ kept' = PutAside(j)
    /\ loggedOut' = TRUE
    /\ userName' = ""
    /\ again' = FALSE
    /\ UNCHANGED <<process, world, login, inflight, attempts, granted>>

(* GET /internal carrying the cookie that was put aside. *)
Replay ==
    /\ Accepting
    /\ Match(routes, "GET", "/internal") = "internal"
    /\ kept # <<>>
    /\ LET r == Request("internal", "GET", <<RequestCookieOf("session", kept[1])>>, "", "", FALSE)
           w == internalPageHandler(NewResponse, r)
       IN  /\ req' = r
           /\ resp' = w
           /\ userName' = getUserName(r)
    /\ again' = FALSE
    /\ UNCHANGED <<process, world, browser, inflight, history>>

SessionInit == Boot({<<Document("alice", "secret"), Document("", "")>>}, {<<>>}, {NoCredentials})

SessionNext ==
    \/ InitializeApp
    \/ SetupRouter
    \/ StartServer
    \/ Index
    \/ SignIn
    \/ SignOut
    \/ Internal
    \/ Replay
    \/ Tick
    \/ Restart

SessionSpec == SessionInit /\ [][SessionNext]_vars

---------------------------------------------------------------------------
(* Requests handled concurrently: net/http runs each handler in a goroutine *)
(* of its own, so the statements of different requests interleave.         *)

(* The requests the concurrent clients send. *)
ConcurrentRequests ==
    { Request("login", "POST", <<>>, username, password, FALSE),
      Request("login", "POST", <<>>, "alice", "secret", FALSE),
      Request("internal", "GET",
              <<RequestCookieOf("session", Encode(cookieHandler, "session", [name |-> "alice"]).encoded)>>,
              "", "", FALSE),
      Request("internal", "GET", <<>>, "", "", FALSE),
      Request("logout", "POST", <<>>, "", "", FALSE) }

(* request.FormValue as the goroutine of slot i sees it: from a package-level *)
(* form that every login in flight shares, where the earliest slot's values   *)
(* are the ones read.                                                         *)
FormOf_Shared(slots, i) ==
    LET logins == {j \in DOMAIN slots : slots[j].req.handler = "login"}
    IN  slots[CHOOSE j \in logins : \A k \in logins : j <= k].req.form

(* request.FormValue as the goroutine of slot i sees it: the form of its own request. *)
FormOf(slots, i) == slots[i].req.form

(* The response to request r when it is handled with no other request in flight. *)
ServeAlone(r) ==
    CASE r.handler = "index" -> indexPageHandler(NewResponse, r)
      [] r.handler = "internal" -> internalPageHandler(NewResponse, r)
      [] r.handler = "login" -> loginHandler(NewResponse, r)
      [] r.handler = "logout" -> logoutHandler(NewResponse, r)

(* The server accepts a connection and starts a goroutine for its request. *)
Accept(i) ==
    /\ Accepting
    /\ inflight[i].pc = "idle"
    /\ \E r \in ConcurrentRequests :
         /\ Match(routes, r.method, r.path) = r.handler
         /\ inflight' = [inflight EXCEPT ![i] = [IdleSlot EXCEPT !.pc = "read", !.req = r]]
    /\ UNCHANGED <<process, world, browser, exchange>>
    /\ UNCHANGED history

(* The handler's first statements: loginHandler reads the form values, *)
(* internalPageHandler calls getUserName.                              *)
ReadInput(i) ==
    /\ inflight[i].pc = "read"
    /\ LET slot == inflight[i]
       IN  inflight' = [inflight EXCEPT ![i] =
             CASE slot.req.handler = "login" ->
                    [slot EXCEPT !.pc = "verify",
                                 !.name = FormOf(inflight, i).name,
                                 !.pass = FormOf(inflight, i).password]
               [] slot.req.handler = "internal" ->
                    [slot EXCEPT !.pc = "respond", !.name = getUserName(slot.req)]
               [] OTHER -> [slot EXCEPT !.pc = "respond"]]
    /\ UNCHANGED <<process, world, browser, exchange>>
    /\ UNCHANGED history

(* loginHandler: the call of verifyCredentials. *)
Verify(i) ==
    /\ inflight[i].pc = "verify"
    /\ LET slot == inflight[i]
       IN  inflight' = [inflight EXCEPT ![i] =
             [slot EXCEPT !.pc = "respond", !.ok = verifyCredentials(slot.name, slot.pass)]]
    /\ UNCHANGED <<process, world, browser, exchange>>
    /\ UNCHANGED history

(* The handler's remaining statements, which write the response. *)
Respond(i) ==
    /\ inflight[i].pc = "respond"
    /\ LET slot == inflight[i]
           r == slot.req
           w == CASE r.handler = "login" ->
                       IF slot.ok
                       THEN Redirect(setSession(slot.name, slot.w), r.method, "/internal", 302)
                       ELSE Redirect(Write(slot.w, "Invalid login", ""), r.method, "/", 302)
                  [] r.handler = "internal" ->
                       IF slot.name # ""
                       THEN Write(slot.w, "internalPage", slot.name)
                       ELSE Redirect(slot.w, r.method, "/", 302)
                  [] r.handler = "logout" -> logoutHandler(slot.w, r)
                  [] OTHER -> indexPageHandler(slot.w, r)
       IN  inflight' = [inflight EXCEPT ![i] = [slot EXCEPT !.pc = "done", !.w = w]]
    /\ UNCHANGED <<process, world, browser, exchange>>
    /\ UNCHANGED history

(* The response has been sent and the goroutine ends. *)
Deliver(i) ==
    /\ inflight[i].pc = "done"
    /\ inflight' = [inflight EXCEPT ![i] = IdleSlot]
    /\ UNCHANGED <<process, world, browser, exchange>>
    /\ UNCHANGED history

ConcurrentNext ==
    \/ InitializeApp
    \/ SetupRouter
    \/ StartServer
    \/ \E i \in 1..MaxInflight : Accept(i)
    \/ \E i \in 1..MaxInflight : ReadInput(i)
    \/ \E i \in 1..MaxInflight : Verify(i)
    \/ \E i \in 1..MaxInflight : Respond(i)
    \/ \E i \in 1..MaxInflight : Deliver(i)

ConcurrentSpec == Init /\ [][ConcurrentNext]_vars

---------------------------------------------------------------------------
(* Vocabulary of the properties *)

(* The response body holds the internal page, rendered with name n. *)
Rendered(w, n) == \E i \in 1..Len(w.body) : w.body[i] = [page |-> "internalPage", arg |-> n]

InternalPageRendered(w) == \E i \in 1..Len(w.body) : w.body[i].page = "internalPage"

(* The response, as the client receives it, is a redirect to url. *)
RedirectsTo(w, url) == w.code = 302 /\ w.sent.Location = <<url>>

(* The request carries exactly the session cookie issued by the client's last successful login. *)
CarriesLoginCookie == login.token # <<>> /\ SessionValues(req.cookies) = login.token

(* Age of the session cookie issued by the client's last successful login. *)
LoginCookieAge == now - login.token[1].ts

(* verifyCredentials on the form values of the request just handled. *)
FormVerified == verifyCredentials(req.form.name, req.form.password)

(* The request just handled is a GET /internal after the client's logout, carrying *)
(* a cookie that this process issued and the client had put aside before.          *)
ReplayAfterLogout ==
    /\ req.handler = "internal"
    /\ loggedOut
    /\ kept # <<>>
    /\ SessionValues(req.cookies) = kept
    /\ kept[1].mac = CreateMac(cookieHandler.hashKey, "session", kept[1].ts, kept[1].data)

(* The mode the process started in decides the answer to the login just handled: *)
(* fallback mode when connectDB returned no handle, store mode when it did.      *)
AnsweredInStartupMode ==
    req.handler = "login" =>
        IF startup.seed = "not called"
        THEN /\ usersCollection = "nil"
             /\ RedirectsTo(resp, "/internal")
                  <=> req.form = [name |-> username, password |-> password]
        ELSE /\ usersCollection # "nil"
             /\ RedirectsTo(resp, "/internal")
                  <=> (dbUp /\ \E i \in 1..Len(store) :
                                  store[i] = Document(req.form.name, req.form.password))

(* A "session" cookie value the codec of this process did not produce. *)
NotOfThisProcess(v) ==
    \/ v.form # "encoded"
    \/ v.mac.key # cookieHandler.hashKey
    \/ v.mac # CreateMac(cookieHandler.hashKey, "session", v.ts, v.data)

---------------------------------------------------------------------------
(* C1: the access guard. Every request handled by internalPageHandler is   *)
(* answered 200 with the internal page rendered with the user name exactly *)
(* when getUserName returned a non-empty name; otherwise it is answered    *)
(* 302 to "/" and the internal page is not rendered.                       *)
C1_AccessGuard ==
    req.handler = "internal" =>
        /\ userName # "" <=> (resp.code = 200 /\ Rendered(resp, userName))
        /\ userName = "" => (RedirectsTo(resp, "/") /\ ~InternalPageRendered(resp))

C1_Witness ==
    /\ req.handler = "internal"
    /\ userName # ""
    /\ resp.code = 200
    /\ Rendered(resp, userName)

(* C2, as stated: getUserName on a request carrying the session cookie     *)
(* produced by setSession(n) returns n, whenever the request is handled.   *)
C2_RoundTripAtAnyAge ==
    (req.handler = "internal" /\ CarriesLoginCookie) => userName = login.name

(* C2, amended: getUserName on a request carrying the session cookie       *)
(* produced by setSession(n) returns n when the request is handled no      *)
(* later than the codec's maximum age after the cookie was issued.         *)
C2_RoundTrip ==
    (req.handler = "internal" /\ CarriesLoginCookie /\ LoginCookieAge <= maxAge)
        => userName = login.name

C2_Witness ==
    /\ req.handler = "internal"
    /\ CarriesLoginCookie
    /\ LoginCookieAge = maxAge
    /\ login.name = "alice"
    /\ userName = "alice"

(* C3: getUserName returns the empty string for a request without a cookie *)
(* named "session", and for one whose "session" cookie is empty, malformed *)
(* or corrupted, or was not produced with the keys of this process.        *)
C3_NoIdentity ==
    req.handler = "internal" =>
        LET cookie == RequestCookie(req.cookies, "session")
        IN  (cookie.err \/ NotOfThisProcess(cookie.Value)) => userName = ""

C3_Witness ==
    /\ req.handler = "internal"
    /\ ~RequestCookie(req.cookies, "session").err
    /\ RequestCookie(req.cookies, "session").Value.form = "encoded"
    /\ RequestCookie(req.cookies, "session").Value.mac.key = cookieHandler.hashKey
    /\ NotOfThisProcess(RequestCookie(req.cookies, "session").Value)
    /\ userName = ""

(* C4: in fallback mode (nil store handle) verifyCredentials accepts the   *)
(* pair ("Ahmad", "Pass123") and no other pair.                            *)
C4_Fallback ==
    usersCollection = "nil" =>
        \A u \in Names, p \in Passwords :
            verifyCredentials(u, p) <=> (u = "Ahmad" /\ p = "Pass123")

C4_Witness ==
    /\ phase = "serving"
    /\ usersCollection = "nil"
    /\ req.handler = "login"
    /\ req.form = [name |-> "Ahmad", password |-> "Pass123"]
    /\ RedirectsTo(resp, "/internal")

(* C5: in store mode, when the lookup completes without error,             *)
(* verifyCredentials accepts exactly the pairs that are the user name and  *)
(* the password of one and the same document of the store.                 *)
C5_StoreMode ==
    (usersCollection # "nil" /\ dbUp) =>
        \A u \in Names, p \in Passwords :
            verifyCredentials(u, p) <=> (\E i \in 1..Len(store) : store[i] = Document(u, p))

C5_Witness ==
    /\ usersCollection # "nil"
    /\ dbUp
    /\ \E i, j \in 1..Len(store) :
         /\ verifyCredentials(store[i].username, store[i].password)
         /\ ~verifyCredentials(store[i].username, store[j].password)
    /\ ~verifyCredentials(username, password)
    /\ req.handler = "login"
    /\ req.form = [name |-> username, password |-> password]
    /\ resp.code = 200

(* The Set-Cookie of a successful login: one cookie, named "session", with *)
(* a token as its value, path "/", no Max-Age and no Expires.              *)
SessionCookieSet(w) ==
    /\ Len(w.sent.SetCookie) = 1
    /\ w.sent.SetCookie[1].Name = "session"
    /\ w.sent.SetCookie[1].Value.form = "encoded"
    /\ w.sent.SetCookie[1].Path = "/"
    /\ w.sent.SetCookie[1].MaxAge = 0
    /\ w.sent.SetCookie[1].Expires = "none"

(* C6, as stated: whenever verifyCredentials accepts the form values,      *)
(* loginHandler answers 302 to "/internal" and sets the session cookie.    *)
C6_LoginAlwaysSetsCookie ==
    (req.handler = "login" /\ FormVerified)
        => (RedirectsTo(resp, "/internal") /\ SessionCookieSet(resp))

(* C6, amended: whenever verifyCredentials accepts the form values,        *)
(* loginHandler answers 302 to "/internal"; it sets the session cookie     *)
(* when the encoded session value fits the codec's length limit, and sets  *)
(* no cookie otherwise.                                                    *)
C6_LoginSuccess ==
    (req.handler = "login" /\ FormVerified) =>
        /\ RedirectsTo(resp, "/internal")
        /\ IF EncodedLen(req.form.name) <= maxLength
           THEN SessionCookieSet(resp)
           ELSE resp.sent.SetCookie = <<>>

C6_Witness ==
    /\ req.handler = "login"
    /\ FormVerified
    /\ RedirectsTo(resp, "/internal")
    /\ SessionCookieSet(resp)
    /\ resp.sent.SetCookie[1].Value.data.value.name = req.form.name

(* C7: whenever verifyCredentials rejects the form values, the response to *)
(* POST /login has status 200, its body holds the "Invalid login" notice,  *)
(* no Location header is sent and no cookie is set.                        *)
C7_LoginFailure ==
    (req.handler = "login" /\ ~FormVerified) =>
        /\ resp.code = 200
        /\ \E i \in 1..Len(resp.body) : resp.body[i].page = "Invalid login"
        /\ resp.sent.Location = <<>>
        /\ resp.sent.SetCookie = <<>>

C7_Witness ==
    /\ req.handler = "login"
    /\ ~FormVerified
    /\ req.cookies # <<>>
    /\ resp.code = 200
    /\ resp.body = <<[page |-> "Invalid login", arg |-> ""]>>

(* C8: logoutHandler always answers 302 to "/" and sets the cookie         *)
(* "session" with an empty value, path "/" and MaxAge -1, whatever cookie  *)
(* the request carries.                                                    *)
C8_Logout ==
    req.handler = "logout" =>
        /\ RedirectsTo(resp, "/")
        /\ resp.sent.SetCookie = <<Cookie("session", Raw(""), "/", -1)>>

C8_Witness ==
    /\ req.handler = "logout"
    /\ CarriesLoginCookie
    /\ RedirectsTo(resp, "/")
    /\ resp.sent.SetCookie[1].MaxAge = -1

(* C9, as stated: after a successful login with any name, a GET /internal  *)
(* carrying the session cookie issued by that login is answered 200 with   *)
(* the name rendered.                                                      *)
C9_LoginThenAccessAnyName ==
    (req.handler = "internal" /\ CarriesLoginCookie)
        => (resp.code = 200 /\ Rendered(resp, login.name))

(* C9, amended: after a successful login with a non-empty name, a          *)
(* GET /internal carrying the session cookie issued by that login, handled *)
(* no later than the codec's maximum age after the login, is answered 200  *)
(* with the name rendered; after a successful login with the empty name it *)
(* is answered 302 to "/".                                                 *)
C9_LoginThenAccess ==
    (req.handler = "internal" /\ CarriesLoginCookie /\ LoginCookieAge <= maxAge) =>
        IF login.name # ""
        THEN resp.code = 200 /\ Rendered(resp, login.name)
        ELSE RedirectsTo(resp, "/")

C9_Witness ==
    /\ req.handler = "internal"
    /\ CarriesLoginCookie
    /\ usersCollection # "nil"
    /\ login.name = "alice"
    /\ LoginCookieAge = maxAge
    /\ resp.code = 200
    /\ Rendered(resp, "alice")

(* C10: once the client has logged out, and until its next successful      *)
(* login, every GET /internal it sends (with the emptied session cookie or *)
(* with none) is answered 302 to "/" and the internal page is not rendered.*)
C10_LogoutThenAccess ==
    (req.handler = "internal" /\ req.client /\ loggedOut)
        => (RedirectsTo(resp, "/") /\ ~InternalPageRendered(resp))

C10_Witness ==
    /\ req.handler = "internal"
    /\ req.client
    /\ loggedOut
    /\ login.token # <<>>
    /\ LoginCookieAge <= maxAge
    /\ SessionValues(req.cookies) = <<Raw("")>>
    /\ RedirectsTo(resp, "/")

(* C11, as stated: the session cookie issued by a successful login is      *)
(* accepted by every later GET /internal of the same process that carries  *)
(* it, and GET /internal sets no cookie.                                   *)
C11_SessionAcceptedForever ==
    (req.handler = "internal" /\ req.method = "GET" /\ CarriesLoginCookie /\ login.run = run)
        => (resp.code = 200 /\ resp.sent.SetCookie = <<>>)

(* C11, amended: the session cookie issued by a successful login with a    *)
(* non-empty name is accepted by every GET /internal of the same process   *)
(* that carries it and is handled no later than the codec's maximum age    *)
(* after the login, however many were accepted before; no request handled  *)
(* by internalPageHandler sets a cookie, and none changes the client's     *)
(* session cookie.                                                         *)
C11_SessionPersistence ==
    [][Internal =>
          /\ resp'.sent.SetCookie = <<>>
          /\ jar' = jar
          /\ (/\ req'.method = "GET"
              /\ login.token # <<>>
              /\ SessionValues(req'.cookies) = login.token
              /\ login.run = run
              /\ login.name # ""
              /\ LoginCookieAge <= maxAge)
             => (resp'.code = 200 /\ Rendered(resp', login.name))]_vars

C11_Witness ==
    /\ req.handler = "internal"
    /\ req.method = "GET"
    /\ req.client
    /\ CarriesLoginCookie
    /\ again
    /\ LoginCookieAge = maxAge
    /\ jar = login.token
    /\ resp.code = 200
    /\ resp.sent.SetCookie = <<>>

(* C12: while the store handle is non-nil and the lookup fails (the server *)
(* is unreachable), verifyCredentials returns false for every pair, the    *)
(* hardcoded pair and pairs stored in the collection included; a login     *)
(* handled then gets the ordinary failure response, and the handle obtained*)
(* at start-up stays in place (the fallback is not switched to).           *)
C12_LookupErrors ==
    (Accepting /\ startup.seed # "not called" /\ ~dbUp) =>
        /\ usersCollection # "nil"
        /\ \A u \in Names \cup {username}, p \in Passwords \cup {password} :
             ~verifyCredentials(u, p)
        /\ req.handler = "login" =>
             resp = Redirect(Write(NewResponse, "Invalid login", ""), req.method, "/", 302)

C12_Witness ==
    /\ req.handler = "login"
    /\ usersCollection # "nil"
    /\ ~dbUp
    /\ req.form = [name |-> username, password |-> password]
    /\ \E i \in 1..Len(store) : store[i] = Document(username, password)
    /\ resp.code = 200
    /\ resp.sent.SetCookie = <<>>

(* C13: a request is handled only once main has called startServer; by     *)
(* then the store handle has been written exactly once (by initializeApp), *)
(* the cookie keys exactly once (by the package initialiser), the seeding  *)
(* has been attempted if a handle was obtained, and the four routes are    *)
(* registered.                                                             *)
C13_InitThenServe ==
    /\ req # NoRequest => phase = "serving"
    /\ phase = "serving" =>
         /\ startup.handleWrites = 1
         /\ startup.keyWrites = 1
         /\ cookieHandler = [hashKey |-> GenerateRandomKey(run), blockKey |-> GenerateRandomKey(run)]
         /\ mongoURI # NoURI
         /\ usersCollection # "nil" <=> startup.seed \in {"inserted", "failed"}
         /\ routes = setupRouter(<<>>)

C13_Witness ==
    /\ req.handler = "login"
    /\ FormVerified
    /\ phase = "serving"
    /\ startup.seed = "inserted"
    /\ startup.handleWrites = 1
    /\ Len(routes) = 4

(* C14: under every interleaving of the statements of the requests in      *)
(* flight, each finished request has exactly the response it gets when it  *)
(* is handled alone in the same state of the store; in particular every    *)
(* login with valid credentials is answered 302 to "/internal" with a      *)
(* session cookie for its own name, whatever else is in flight.            *)
C14_RequestIndependence ==
    \A i \in 1..MaxInflight :
        inflight[i].pc = "done" =>
            /\ inflight[i].w = ServeAlone(inflight[i].req)
            /\ (/\ inflight[i].req.handler = "login"
                /\ verifyCredentials(inflight[i].req.form.name, inflight[i].req.form.password))
               => /\ RedirectsTo(inflight[i].w, "/internal")
                  /\ SessionValues(inflight[i].w.sent.SetCookie)
                       = <<Encode(cookieHandler, "session", [name |-> inflight[i].req.form.name]).encoded>>

C14_Witness ==
    /\ \A i \in 1..MaxInflight :
         /\ inflight[i].pc = "done"
         /\ inflight[i].req.handler = "login"
         /\ inflight[i].w.code = 302
    /\ inflight[1].req.form.name = username
    /\ inflight[2].req.form.name = "alice"
    /\ usersCollection # "nil"

(* C15: a request to /login or /logout with a method other than POST is    *)
(* answered 405 by the router; loginHandler and logoutHandler run only for *)
(* POST; the 405 response sets no cookie and the client's session cookie   *)
(* is what it was when the request was sent.                               *)
C15_MethodRestriction ==
    /\ req.handler \in {"login", "logout"} => req.method = "POST"
    /\ (req.path \in {"/login", "/logout"} /\ req.method # "POST") =>
          /\ req.handler = "methodNotAllowed"
          /\ resp.code = 405
          /\ resp.sent.SetCookie = <<>>
          /\ resp.sent.Location = <<>>
          /\ req.client => jar = SessionValues(req.cookies)

C15_Witness ==
    /\ req.path = "/logout"
    /\ req.method = "GET"
    /\ req.client
    /\ CarriesLoginCookie
    /\ jar = login.token
    /\ resp.code = 405
    /\ resp.sent.SetCookie = <<>>

(* C16: createUsers leaves the store as it is when the handle is nil, and  *)
(* when the insert fails; a failed insert during initializeApp does not    *)
(* stop start-up: the handle stays in place and main goes on to set up the *)
(* router exactly as after a successful insert.                            *)
C16_SeedingErrors ==
    [][/\ (CreateUsers /\ usersCollection = "nil") => store' = store
       /\ ((CreateUsers \/ InitializeApp) /\ startup'.seed = "failed") =>
             /\ store' = store
             /\ usersCollection' = "users"
       /\ InitializeApp => phase' = "initialized"
       /\ (CreateUsers \/ InitializeApp) =>
             \/ store' = store
             \/ (startup'.seed = "inserted" /\ store' = Append(store, Document(username, password)))]_vars

C16_Witness ==
    /\ phase = "serving"
    /\ usersCollection = "users"
    /\ startup.seed = "failed"
    /\ store = <<Document(username, password)>>
    /\ Len(routes) = 4

(* C17: the cookie keys are those generated when the process was loaded:   *)
(* no request changes them, they change only from one run to the next; a   *)
(* session cookie issued by a login in an earlier run does not verify in   *)
(* the current run, so that getUserName returns "" for it and /internal    *)
(* answers 302 to "/".                                                     *)
C17_PerProcessKeys ==
    [][/\ cookieHandler' # cookieHandler => run' = run + 1
       /\ run' = run + 1 => cookieHandler'.hashKey # cookieHandler.hashKey
       /\ startup'.keyWrites = 1
       /\ (req'.handler = "internal" /\ CarriesLoginCookie' /\ login'.run < run') =>
             /\ userName' = ""
             /\ RedirectsTo(resp', "/")
             /\ ~InternalPageRendered(resp')]_vars

C17_Witness ==
    /\ req.handler = "internal"
    /\ CarriesLoginCookie
    /\ login.name = username
    /\ login.run = 1
    /\ run = 2
    /\ LoginCookieAge <= maxAge
    /\ userName = ""
    /\ RedirectsTo(resp, "/")

(* C18: a request to /internal without a session cookie, one with a        *)
(* session cookie that this process did not produce, and one with a        *)
(* session cookie of this process that carries the empty name are treated  *)
(* alike: getUserName returns "" and the response is, header for header    *)
(* and byte for byte, the one the same request gets without any cookie.    *)
C18_Indistinguishable ==
    req.handler = "internal" =>
        LET cookie == RequestCookie(req.cookies, "session")
            anonymous == \/ cookie.err
                         \/ NotOfThisProcess(cookie.Value)
                         \/ cookie.Value.data.value.name = ""
        IN  anonymous =>
              /\ userName = ""
              /\ resp = internalPageHandler(NewResponse, [req EXCEPT !.cookies = <<>>])
              /\ RedirectsTo(resp, "/")

C18_Witness ==
    /\ req.handler = "internal"
    /\ CarriesLoginCookie
    /\ login.name = ""
    /\ LoginCookieAge <= maxAge
    /\ ~NotOfThisProcess(login.token[1])
    /\ userName = ""
    /\ resp = internalPageHandler(NewResponse, [req EXCEPT !.cookies = <<>>])

(* C19, as stated: once initializeApp has run, the URI connectDB connected *)
(* with carries the user name and password of the environment variables    *)
(* MONGODB_USERNAME and MONGODB_PASSWORD when they are set, and no user    *)
(* information when they are not.                                          *)
C19_MongoDBAuthentication ==
    mongoURI # NoURI =>
        mongoURI.userinfo =
            IF environ.MONGODB_USERNAME # "" /\ environ.MONGODB_PASSWORD # ""
            THEN <<environ.MONGODB_USERNAME, environ.MONGODB_PASSWORD>>
            ELSE <<>>

(* C20: every request handled by indexPageHandler, with or without session *)
(* cookie, in store mode or fallback mode, is answered 200 with the login  *)
(* form and nothing else, without Location and without Set-Cookie, so the  *)
(* client's session cookie is what it was when the request was sent; the   *)
(* form has the fields "name" and "password" and submits to the route of   *)
(* loginHandler.                                                           *)
C20_IndexPage ==
    req.handler = "index" =>
        /\ resp.code = 200
        /\ resp.body = <<[page |-> "indexPage", arg |-> ""]>>
        /\ resp.sent.Location = <<>>
        /\ resp.sent.SetCookie = <<>>
        /\ jar = SessionValues(req.cookies)
        /\ Match(routes, indexPage.method, indexPage.action) = "login"
        /\ {indexPage.fields[i].name : i \in DOMAIN indexPage.fields} = DOMAIN req.form

C20_Witness ==
    /\ req.handler = "index"
    /\ req.method = "GET"
    /\ CarriesLoginCookie
    /\ login.name = "alice"
    /\ jar = login.token
    /\ resp.code = 200
    /\ resp.sent.SetCookie = <<>>

(* C21: when verifyCredentials accepts the form values and encoding the    *)
(* session value fails (the encoded value exceeds the codec's length       *)
(* limit), the response to the login is the bare redirect 302 to           *)
(* "/internal": no cookie is set, nothing is written about the error, and  *)
(* the client's session cookie is what it was.                             *)
C21_EncodingFailure ==
    (/\ req.handler = "login"
     /\ FormVerified
     /\ Encode(cookieHandler, "session", [name |-> req.form.name]).err) =>
        /\ resp = Redirect(NewResponse, req.method, "/internal", 302)
        /\ RedirectsTo(resp, "/internal")
        /\ resp.sent.SetCookie = <<>>
        /\ jar = SessionValues(req.cookies)

C21_Witness ==
    /\ req.handler = "login"
    /\ FormVerified
    /\ req.form.name = LongName
    /\ EncodedLen(LongName) > maxLength
    /\ jar # <<>>
    /\ RedirectsTo(resp, "/internal")
    /\ resp.sent.SetCookie = <<>>

(* C22: whatever the number of failed logins before it, a login is         *)
(* answered 302 to "/internal" exactly when its form values are the        *)
(* hardcoded pair (nil handle) or a pair of a document of the store that   *)
(* the lookup reaches (non-nil handle), and answered 200 otherwise.        *)
C22_NoLockout ==
    req.handler = "login" =>
        LET valid == IF usersCollection = "nil"
                     THEN req.form = [name |-> username, password |-> password]
                     ELSE /\ dbUp
                          /\ \E i \in 1..Len(store) :
                               store[i] = Document(req.form.name, req.form.password)
        IN  IF valid THEN RedirectsTo(resp, "/internal") /\ attempts.since = 0
            ELSE resp.code = 200 /\ attempts.since > 0

C22_Witness ==
    /\ req.handler = "login"
    /\ attempts.run = MaxFailures
    /\ attempts.since = 0
    /\ usersCollection # "nil"
    /\ req.form.name = "alice"
    /\ RedirectsTo(resp, "/internal")

(* C30: the response to a failed login sets no cookie, so the client's     *)
(* session cookie is what it was; and as long as logins have only failed   *)
(* since the client's last successful login, which set a cookie for a      *)
(* non-empty name, every GET /internal of the client carries that cookie   *)
(* and is answered 200 with that name.                                     *)
C30_FailedLoginKeepsSession ==
    /\ (req.handler = "login" /\ resp.code = 200) =>
          /\ resp.sent.SetCookie = <<>>
          /\ jar = SessionValues(req.cookies)
    /\ (/\ attempts.since > 0
        /\ login.token # <<>>
        /\ login.name # ""
        /\ LoginCookieAge <= maxAge) =>
          /\ jar = login.token
          /\ (req.handler = "internal" /\ req.client /\ req.method = "GET") =>
                /\ CarriesLoginCookie
                /\ resp.code = 200
                /\ Rendered(resp, login.name)

C30_Witness ==
    /\ req.handler = "internal"
    /\ req.client
    /\ req.method = "GET"
    /\ attempts.since = MaxFailures
    /\ login.name = "alice"
    /\ CarriesLoginCookie
    /\ resp.code = 200
    /\ Rendered(resp, "alice")

(* C23: whenever /internal answers 200, the name rendered is the name of   *)
(* the form of a login that succeeded earlier in the same run of the       *)
(* process, whether the cookie presented is the client's current one, one  *)
(* it had put aside, or one not issued by this process; before any login   *)
(* has succeeded, no index, failed-login, internal or logout request gets  *)
(* the internal page.                                                      *)
C23_SessionProvenance ==
    /\ (req.handler = "internal" /\ resp.code = 200) =>
          /\ userName \in granted
          /\ Rendered(resp, userName)
    /\ granted = {} => ~InternalPageRendered(resp)

C23_Witness ==
    /\ req.handler = "internal"
    /\ resp.code = 200
    /\ userName = "alice"
    /\ granted = {"alice", username}
    /\ kept # <<>>
    /\ SessionValues(req.cookies) = kept
    /\ jar # kept
    /\ login.name = username

(* C24, as stated: after a logout, a GET /internal carrying a session      *)
(* cookie that this process issued before the logout is answered 200.      *)
C24_ReplayAlwaysServed == ReplayAfterLogout => resp.code = 200

(* C24, amended: a logout changes neither the keys nor the store handle    *)
(* nor the store; after it, a GET /internal carrying a session cookie that *)
(* this process issued before the logout for a non-empty name is answered  *)
(* 200 with that name as long as the cookie is no older than the codec's   *)
(* maximum age, and 302 to "/" once it is older.                           *)
C24_NoRevocation ==
    [][/\ SignOut => (/\ cookieHandler' = cookieHandler
                      /\ usersCollection' = usersCollection
                      /\ store' = store)
       /\ (ReplayAfterLogout /\ kept[1].data.value.name # "")' =>
             (IF now - kept[1].ts <= maxAge
              THEN resp.code = 200 /\ Rendered(resp, kept[1].data.value.name)
              ELSE RedirectsTo(resp, "/"))']_vars

C24_Witness ==
    /\ req.handler = "internal"
    /\ loggedOut
    /\ kept # <<>>
    /\ SessionValues(req.cookies) = kept
    /\ jar = <<>>
    /\ kept[1].data.value.name = "alice"
    /\ now - kept[1].ts = maxAge
    /\ resp.code = 200
    /\ Rendered(resp, "alice")

(* C25: no request, whichever handler or router answer it gets, changes    *)
(* usersCollection or the cookie keys; and every login is answered in the  *)
(* mode the process started in: by the hardcoded pair alone when it        *)
(* started without a handle, even while the server answers, and by the     *)
(* lookup alone when it started with a handle, even while the server is    *)
(* down.                                                                   *)
C25_ModeFixedAtInit ==
    [][/\ req' # NoRequest =>
             /\ usersCollection' = usersCollection
             /\ cookieHandler' = cookieHandler
       /\ phase = "serving" => usersCollection' = usersCollection
       /\ AnsweredInStartupMode']_vars

C25_Witness ==
    /\ req.handler = "login"
    /\ startup.seed = "not called"
    /\ usersCollection = "nil"
    /\ dbUp
    /\ req.form = [name |-> "alice", password |-> "secret"]
    /\ \E i \in 1..Len(store) : store[i] = Document("alice", "secret")
    /\ resp.code = 200

(* The number of records of the store that are the default user's. *)
DefaultRecords(docs) == Cardinality({i \in 1..Len(docs) : docs[i] = Document(username, password)})

C26_ModeSelection ==
    [][(phase = "starting" /\ phase' = "initialized") =>
          /\ startup'.handleWrites = 1
          /\ usersCollection' = "nil" <=> ~dbUp
          /\ usersCollection' = "nil" =>
                /\ startup'.seedCalls = startup.seedCalls
                /\ startup'.seed = "not called"
                /\ store' = store
          /\ usersCollection' # "nil" =>
                /\ startup'.seedCalls = startup.seedCalls + 1
                /\ startup'.seed \in {"inserted", "failed"}
                /\ startup'.seed = "failed" => store' = store
                /\ startup'.seed = "inserted" => store' = Append(store, Document(username, password))
                /\ verifyCredentials(username, password)'
                     <=> \E i \in 1..Len(store') : store'[i] = Document(username, password)]_vars

C26_Witness ==
    /\ phase = "initialized"
    /\ usersCollection = "users"
    /\ startup.seed = "failed"
    /\ startup.seedCalls = 1
    /\ dbUp
    /\ store # <<>>
    /\ ~verifyCredentials(username, password)

(* The request just handled is a GET /internal carrying one session cookie *)
(* whose value this process issued (its MAC and encryption are of the keys *)
(* of this process).                                                       *)
CarriesIssuedToken ==
    /\ req.handler = "internal"
    /\ req.method = "GET"
    /\ Len(SessionValues(req.cookies)) = 1
    /\ ~NotOfThisProcess(SessionValues(req.cookies)[1])
    /\ SessionValues(req.cookies)[1].data.blockKey = cookieHandler.blockKey

(* Time passed since the token of the request just handled was issued. *)
IssuedTokenAge == now - SessionValues(req.cookies)[1].ts

(* C28, as stated: a token this process issued is decoded to its name no   *)
(* matter how much time has passed since it was issued.                    *)
C28_TokensNeverExpire ==
    CarriesIssuedToken =>
        userName = SessionValues(req.cookies)[1].data.value.name

(* C28, amended: a token this process issued is decoded to its name as     *)
(* long as it is no older than the codec's maximum age; once older,        *)
(* getUserName returns the empty string and the request is redirected.     *)
C28_TokensExpireAtMaxAge ==
    CarriesIssuedToken =>
        IF IssuedTokenAge <= maxAge
        THEN userName = SessionValues(req.cookies)[1].data.value.name
        ELSE userName = "" /\ RedirectsTo(resp, "/")

C28_Witness ==
    /\ CarriesIssuedToken
    /\ IssuedTokenAge = maxAge
    /\ userName = username
    /\ Rendered(resp, username)

(* The request just handled is a GET /internal of the client, who applies  *)
(* every Set-Cookie it receives and sends its jar as it is.                *)
ClientVisit == req.handler = "internal" /\ req.method = "GET" /\ req.client

(* C29, as stated: a GET /internal of the client renders n exactly when    *)
(* the client's most recent successful login used name n and no logout of  *)
(* the client followed it.                                                 *)
C29_TracksLatestLogin ==
    ClientVisit =>
        \A n \in Names :
            Rendered(resp, n) <=> (login.run # 0 /\ ~loggedOut /\ login.name = n)

(* C29, amended: a GET /internal of the client renders nothing before the  *)
(* first successful login and after a logout; after a successful login     *)
(* that was answered with a session cookie and was followed by no logout,  *)
(* it renders n exactly when that login used n, n is not empty and the     *)
(* login is no older than the codec's maximum age. A successful login      *)
(* answered with a session cookie replaces the client's cookie by one of   *)
(* the new name, whatever the client carried; it is answered without a     *)
(* cookie only when the name cannot be encoded, and then the client's      *)
(* cookie stays as it was.                                                 *)
C29_ClientSession ==
    /\ ClientVisit =>
          /\ (login.run = 0 \/ loggedOut) => ~InternalPageRendered(resp)
          /\ (login.token # <<>> /\ ~loggedOut) =>
                \A n \in Names :
                    Rendered(resp, n) <=>
                        (n = login.name /\ n # "" /\ LoginCookieAge <= maxAge)
    /\ (req.handler = "login" /\ FormVerified) =>
          /\ ~loggedOut
          /\ login.name = req.form.name
          /\ IF ~Encode(cookieHandler, "session", [name |-> req.form.name]).err
             THEN /\ Len(SessionValues(resp.sent.SetCookie)) = 1
                  /\ jar = SessionValues(resp.sent.SetCookie)
                  /\ jar = login.token
                  /\ getUserName(Request("internal", "GET",
                                         <<RequestCookieOf("session", jar[1])>>,
                                         "", "", TRUE)) = req.form.name
             ELSE /\ resp.sent.SetCookie = <<>>
                  /\ jar = SessionValues(req.cookies)

C29_Witness ==
    /\ req.handler = "login"
    /\ FormVerified
    /\ req.form.name = username
    /\ Len(req.cookies) = 1
    /\ getUserName(req) = "alice"
    /\ jar = login.token
    /\ jar # SessionValues(req.cookies)
    /\ jar[1].data.value.name = username

(* The paths setupRouter registers. *)
RegisteredPaths == {"/", "/internal", "/login", "/logout"}

(* The four requests setupRouter provides for, dispatched to their handlers. *)
DispatchedAsRegistered ==
    /\ (req.method = "GET" /\ req.path = "/") =>
          (req.handler = "index" /\ resp.code # 404)
    /\ (req.method = "GET" /\ req.path = "/internal") =>
          (req.handler = "internal" /\ resp.code # 404)
    /\ (req.method = "POST" /\ req.path = "/login") =>
          (req.handler = "login" /\ resp.code # 404)
    /\ (req.method = "POST" /\ req.path = "/logout") =>
          (req.handler = "logout" /\ resp.code # 404)

(* C31, as stated: a request whose path is none of the four registered     *)
(* paths is answered 404 by the router and reaches no handler; GET /,      *)
(* GET /internal, POST /login and POST /logout are dispatched.             *)
C31_UnknownPathsNotFound ==
    req # NoRequest =>
        /\ req.path \notin RegisteredPaths =>
              (req.handler = "notFound" /\ resp.code = 404)
        /\ DispatchedAsRegistered

(* C31, amended: a request whose path is in canonical form and is none of  *)
(* the four registered paths is answered 404 by the router, with no cookie,*)
(* and reaches no handler; a request whose path is not in canonical form   *)
(* reaches no handler either and is answered 301 to the canonical path;    *)
(* GET /, GET /internal, POST /login and POST /logout are dispatched.      *)
C31_UnknownPaths ==
    req # NoRequest =>
        /\ (req.path \notin RegisteredPaths /\ cleanPath(req.path) = req.path) =>
              /\ req.handler = "notFound"
              /\ resp = Write(WriteHeader(NewResponse, 404), "404 page not found", "")
        /\ cleanPath(req.path) # req.path =>
              /\ req.handler = "movedPermanently"
              /\ resp.code = 301
              /\ resp.sent.Location = <<cleanPath(req.path)>>
              /\ resp.sent.SetCookie = <<>>
        /\ DispatchedAsRegistered

C31_Witness ==
    /\ req.path = "/internal/"
    /\ req.method = "GET"
    /\ req.handler = "notFound"
    /\ resp.code = 404
    /\ resp.sent.SetCookie = <<>>

(* C32: after setupRouter has been called k >= 1 times on the package-level*)
(* router, every request (method, path) is dispatched to the same handler, *)
(* or gets the same 404, 405 or 301, as after one call; so is the request  *)
(* just served.                                                            *)
C32_SetupRouterIdempotent ==
    Len(routes) >= 4 =>
        /\ \A method \in AllMethods, path \in RouterPaths :
             ServeHTTP(routes, method, path) = ServeHTTP(setupRouter(<<>>), method, path)
        /\ req # NoRequest =>
             req.handler = ServeHTTP(setupRouter(<<>>), req.method, req.path)

C32_Witness ==
    /\ Len(routes) = 4 * MaxSetups
    /\ req.path = "/login"
    /\ req.method = "GET"
    /\ req.handler = "methodNotAllowed"
    /\ resp.code = 405

(* C33: the host initializeApp connects to is the first command-line       *)
(* argument when there is one and it is not empty, whatever arguments      *)
(* follow it, and "127.0.0.1" when there is no argument or the first one   *)
(* is the empty string.                                                    *)
C33_MongoDBIP ==
    phase # "starting" =>
        /\ (args = <<>> \/ Head(args) = "") => mongoURI.host = "127.0.0.1"
        /\ (args # <<>> /\ Head(args) # "") => mongoURI.host = Head(args)

C33_Witness ==
    /\ phase = "serving"
    /\ Len(args) = 2
    /\ args[1] = ""
    /\ mongoURI.host = "127.0.0.1"

=============================================================================
